---- MODULE Spec2Model ----
(***************************************************************************)
(* Text shaping with font fallback, tracking, measuring, reshaping and     *)
(* line decoration, after src/src/library/text.rs.                         *)
(*                                                                         *)
(* Texts are sequences of one-byte characters, so a byte offset b (as used *)
(* by text_index and by reshape ranges) is the character at position b+1.  *)
(* Glyph offsets keep the source's 0-based values; the glyph at offset k   *)
(* is element k+1 of the sequence.                                         *)
(* Em values are in thousandths of an em, lengths in thousandths of a pt.  *)
(***************************************************************************)
EXTENDS Integers, Sequences, FiniteSets, TLC

\* Bounds of the checked inputs.
MaxLen == 3
MaxFamilies == 2

(***************************************************************************)
(* The collaborators: characters, the font store and the shaping engine.   *)
(***************************************************************************)

\* "a", "b", "z": letters; "m": a combining mark; "n": the newline character.
Chars == {"a", "b", "z", "m", "n"}

NoFace == "none"

\* The families a style may name; the store has no face for "x".
FamilyNames == {"f1", "f2", "f3", "x"}

\* FontStore::select: the face of a family, if the store has one.
Select(family) ==
    CASE family = "f1" -> "F1"
      [] family = "f2" -> "F2"
      [] family = "f3" -> "F3"
      [] OTHER -> NoFace

\* The glyph a face maps a character to; 0 is the missing glyph (tofu).
\* F1 has the letter "a" only, F2 the letter "b" and the mark, F3 both
\* letters and the mark.  No face maps the newline or "z".
Cmap(face, c) ==
    CASE face = "F1" /\ c = "a" -> 5
      [] face = "F2" /\ c = "b" -> 7
      [] face = "F2" /\ c = "m" -> 9
      [] face = "F3" /\ c = "a" -> 11
      [] face = "F3" /\ c = "b" -> 12
      [] face = "F3" /\ c = "m" -> 13
      [] OTHER -> 0

UnitsPerEm(face) == IF face = "F2" THEN 2000 ELSE 1000

\* Horizontal advance of a glyph, in font units.
HAdvance(face, gid) ==
    CASE gid = 5 -> 600
      [] gid = 7 -> 1000
      [] gid = 11 -> 550
      [] gid = 12 -> 650
      [] gid \in {9, 13} -> 0
      [] OTHER -> IF face = "F1" THEN 500 ELSE IF face = "F2" THEN 800 ELSE 450

\* Horizontal offset of a glyph, in font units (a mark is pulled back).
HOffset(face, gid) ==
    CASE gid = 9 -> -400
      [] gid = 13 -> -250
      [] OTHER -> 0

\* Pairs of characters a face kerns, and the adjustment in font units.
KernPairs(face) ==
    CASE face = "F1" -> {<<"a", "a">>}
      [] face = "F3" -> {<<"a", "b">>}
      [] OTHER -> {}

KernValue(face) == IF face = "F1" THEN -100 ELSE -50

\* Face::to_em: font units to em.
ToEm(face, units) == (units * 1000) \div UnitsPerEm(face)

\* Face::vertical_metric at the style's top and bottom edge, in em.
TopMetric(face) ==
    CASE face = "F1" -> 800
      [] face = "F2" -> 900
      [] OTHER -> 850

BottomMetric(face) ==
    CASE face = "F1" -> -200
      [] face = "F2" -> -300
      [] OTHER -> -250

\* Em::resolve and Length arithmetic at the style's font size.
FontSize == 11

Resolve(em) == em * FontSize

RECURSIVE ClusterOf(_, _)
\* The cluster (byte offset) of character j: a mark continues the cluster
\* of the character before it.
ClusterOf(text, j) ==
    IF j > 1 /\ text[j] = "m" THEN ClusterOf(text, j - 1) ELSE j - 1

\* Characters p and p+1 are a kerning pair that the face applies.
KernPairAt(face, text, p) ==
    /\ p >= 1
    /\ p + 1 <= Len(text)
    /\ <<text[p], text[p + 1]>> \in KernPairs(face)
    /\ Cmap(face, text[p]) # 0
    /\ Cmap(face, text[p + 1]) # 0

\* The engine's output for character j.  The glyphs of a cluster whose first
\* character is kerned with the character before it are unsafe to break
\* before.
GlyphInfo(face, text, j) ==
    LET gid == Cmap(face, text[j])
        c == ClusterOf(text, j)
    IN  [glyph_id |-> gid,
         cluster |-> c,
         x_advance |-> HAdvance(face, gid)
                         + (IF KernPairAt(face, text, j) THEN KernValue(face) ELSE 0),
         x_offset |-> HOffset(face, gid),
         unsafe_to_break |-> KernPairAt(face, text, c)]

\* rustybuzz::shape: one info per character, in visual order.
RbShape(face, text, dir) ==
    LET n == Len(text)
    IN  [v \in 1..n |-> GlyphInfo(face, text, IF dir = "LTR" THEN v ELSE n + 1 - v)]

(***************************************************************************)
(* shape_segment                                                           *)
(***************************************************************************)

\* text.chars().all(|c| c == '\n')
AllNewlines(text) == \A j \in 1..Len(text) : text[j] = "n"

\* The selection loop as it would be if the family it selects stayed in the
\* sequence that is handed on.
SelectFamilyStuck(families, first_face) ==
    LET avail == {k \in 1..Len(families) : Select(families[k]) # NoFace}
    IN  IF avail = {}
        THEN [ok |-> first_face # NoFace, face_id |-> first_face,
              fallback |-> FALSE, families |-> <<>>]
        ELSE LET k == CHOOSE k \in avail : \A j \in avail : k <= j
             IN  [ok |-> TRUE, face_id |-> Select(families[k]), fallback |-> TRUE,
                  families |-> SubSeq(families, k, Len(families))]

RECURSIVE SelectFamily(_, _)
\* The family selection loop: the first family of the sequence the store has
\* a face for (fallback = TRUE), else the first face used (fallback = FALSE),
\* else nothing.  families is what is left of the sequence.
SelectFamily(families, first_face) ==
    IF families = <<>>
    THEN IF first_face # NoFace
         THEN [ok |-> TRUE, face_id |-> first_face, fallback |-> FALSE,
               families |-> <<>>]
         ELSE [ok |-> FALSE, face_id |-> NoFace, fallback |-> FALSE,
               families |-> <<>>]
    ELSE IF Select(Head(families)) # NoFace
         THEN [ok |-> TRUE, face_id |-> Select(Head(families)), fallback |-> TRUE,
               families |-> Tail(families)]
         ELSE SelectFamily(Tail(families), first_face)

\* The first face as it would be if every call put its own face there.
InsertAlways(first_face, face_id) == face_id

\* first_face.get_or_insert(face_id)
GetOrInsert(first_face, face_id) ==
    IF first_face = NoFace THEN face_id ELSE first_face

\* A glyph is accepted into the output, or it is a tofu to shape again.
Accepted(info, fallback) == info.glyph_id # 0 \/ ~fallback

\* The glyph as it would be if its text_index were the cluster within the
\* segment, without the base of the segment.
MakeGlyphNoBase(face_id, info, base) ==
    [face_id |-> face_id,
     glyph_id |-> info.glyph_id,
     x_advance |-> ToEm(face_id, info.x_advance),
     x_offset |-> ToEm(face_id, info.x_offset),
     text_index |-> info.cluster,
     safe_to_break |-> ~info.unsafe_to_break]

\* The glyph pushed for an accepted info.
MakeGlyph(face_id, info, base) ==
    [face_id |-> face_id,
     glyph_id |-> info.glyph_id,
     x_advance |-> ToEm(face_id, info.x_advance),
     x_offset |-> ToEm(face_id, info.x_offset),
     text_index |-> base + info.cluster,
     safe_to_break |-> ~info.unsafe_to_break]

RECURSIVE RunEnd(_, _)
\* The last glyph of the tofu sequence that starts at glyph i.
RunEnd(infos, i) ==
    IF i + 1 <= Len(infos) /\ infos[i + 1].glyph_id = 0
    THEN RunEnd(infos, i + 1)
    ELSE i

\* The source text range start..end of the tofu sequence k..i.
TofuRange(infos, k, i, dir, textlen) ==
    LET ltr == dir = "LTR"
        first == IF ltr THEN k ELSE i
        last == IF ltr THEN i + 1 ELSE k - 1
    IN  [start |-> infos[first].cluster,
         end |-> IF last \in 1..Len(infos) THEN infos[last].cluster ELSE textlen]

\* &text[range]
Slice(text, r) == SubSeq(text, r.start + 1, r.end)

RECURSIVE ShapeSegment(_, _, _, _, _, _)
RECURSIVE Collect(_, _, _, _, _, _, _, _)

\* The glyph collection loop from glyph i on.
Collect(glyphs, i, infos, base, text, sel, first_face, dir) ==
    IF i > Len(infos)
    THEN glyphs
    ELSE IF Accepted(infos[i], sel.fallback)
         THEN Collect(Append(glyphs, MakeGlyph(sel.face_id, infos[i], base)),
                      i + 1, infos, base, text, sel, first_face, dir)
         ELSE LET e == RunEnd(infos, i)
                  r == TofuRange(infos, i, e, dir, Len(text))
              IN  Collect(ShapeSegment(glyphs, base + r.start, Slice(text, r),
                                       sel.families, first_face, dir),
                          e + 1, infos, base, text, sel, first_face, dir)

\* shape_segment: glyphs with the glyphs of text appended.
ShapeSegment(glyphs, base, text, families, first_face, dir) ==
    IF AllNewlines(text)
    THEN glyphs
    ELSE LET sel == SelectFamily(families, first_face)
         IN  IF ~sel.ok
             THEN glyphs
             ELSE Collect(glyphs, 1, RbShape(sel.face_id, text, dir), base, text,
                          sel, GetOrInsert(first_face, sel.face_id), dir)

(***************************************************************************)
(* track, measure, shape                                                   *)
(***************************************************************************)

\* track as it would be if it skipped the last glyph of a cluster of several
\* glyphs and added the tracking to every other glyph.
TrackButLastOfCluster(glyphs, tracking) ==
    IF tracking = 0
    THEN glyphs
    ELSE [i \in 1..Len(glyphs) |->
            IF /\ i > 1
               /\ glyphs[i - 1].text_index = glyphs[i].text_index
               /\ (i = Len(glyphs) \/ glyphs[i].text_index # glyphs[i + 1].text_index)
            THEN glyphs[i]
            ELSE [glyphs[i] EXCEPT !.x_advance = @ + tracking]]

\* track: the advance of a glyph grows when the next glyph is of another
\* cluster.
Track(glyphs, tracking) ==
    IF tracking = 0
    THEN glyphs
    ELSE [i \in 1..Len(glyphs) |->
            IF i < Len(glyphs) /\ glyphs[i].text_index # glyphs[i + 1].text_index
            THEN [glyphs[i] EXCEPT !.x_advance = @ + tracking]
            ELSE glyphs[i]]

Max(a, b) == IF a >= b THEN a ELSE b

RECURSIVE SumAdvance(_)
SumAdvance(glyphs) ==
    IF glyphs = <<>> THEN 0
    ELSE Resolve(Head(glyphs).x_advance) + SumAdvance(Tail(glyphs))

\* Length::set_max over a set of values, starting from Length::zero().
SetMax(values) ==
    IF values = {} THEN 0
    ELSE Max(0, CHOOSE v \in values : \A w \in values : v >= w)

RECURSIVE FirstAvailable(_)
\* The faces measure expands with when there are no glyphs: the face of the
\* first family the store has, if any.
FirstAvailable(families) ==
    IF families = <<>> THEN {}
    ELSE IF Select(Head(families)) # NoFace THEN {Select(Head(families))}
         ELSE FirstAvailable(Tail(families))

ExpandTop(face) == Resolve(TopMetric(face))

ExpandBottom(face) == -Resolve(BottomMetric(face))

\* measure as it would be if, with no glyphs and no family the store has, it
\* expanded with the metrics of a face of the store all the same.
MeasureAnyFace(glyphs, families) ==
    LET faces == IF glyphs = <<>>
                 THEN IF FirstAvailable(families) = {}
                      THEN {Select("f1")}
                      ELSE FirstAvailable(families)
                 ELSE {glyphs[i].face_id : i \in 1..Len(glyphs)}
        top == SetMax({ExpandTop(f) : f \in faces})
        bottom == SetMax({ExpandBottom(f) : f \in faces})
    IN  [size |-> [width |-> SumAdvance(glyphs), height |-> top + bottom],
         baseline |-> top]

\* measure: size and baseline of a run of glyphs.
Measure(glyphs, families) ==
    LET faces == IF glyphs = <<>>
                 THEN FirstAvailable(families)
                 ELSE {glyphs[i].face_id : i \in 1..Len(glyphs)}
        top == SetMax({ExpandTop(f) : f \in faces})
        bottom == SetMax({ExpandBottom(f) : f \in faces})
    IN  [size |-> [width |-> SumAdvance(glyphs), height |-> top + bottom],
         baseline |-> top]

\* shape up to track: shape_segment is called for a non-empty text only.
SegmentGlyphs(text, families, dir) ==
    IF text # <<>>
    THEN ShapeSegment(<<>>, 0, text, families, NoFace, dir)
    ELSE <<>>

\* shape: a ShapedText that owns its glyphs.
Shape(text, families, tracking, dir) ==
    LET glyphs == Track(SegmentGlyphs(text, families, dir), tracking)
        m == Measure(glyphs, families)
    IN  [text |-> text, dir |-> dir, size |-> m.size, baseline |-> m.baseline,
         glyphs |-> glyphs, owned |-> TRUE]

(***************************************************************************)
(* reshape                                                                 *)
(***************************************************************************)

\* The outcomes of an Option<usize> computation that may also panic.
Some(idx) == [kind |-> "some", idx |-> idx]

None == [kind |-> "none", idx |-> 0]

Panic == [kind |-> "panic", idx |-> 0]

\* binary_search_by on the glyphs, which are sorted by text_index in the
\* order of the direction: the offset of any glyph with the text index
\* (which one is up to the search), or -1 for Err.
BinarySearch(glyphs, text_index) ==
    LET hits == {k \in 0..(Len(glyphs) - 1) : glyphs[k + 1].text_index = text_index}
    IN  IF hits = {} THEN {-1} ELSE hits

RECURSIVE Outermost(_, _, _, _)
\* The outermost glyph with the text index towards a side, from offset idx.
Outermost(glyphs, idx, text_index, towards) ==
    LET has_next == towards = "Right" \/ idx >= 1
        next == IF towards = "Left" THEN idx - 1 ELSE idx + 1
    IN  IF ~has_next THEN idx
        ELSE IF next >= Len(glyphs) \/ glyphs[next + 1].text_index # text_index
             THEN idx
             ELSE Outermost(glyphs, next, text_index, towards)

\* The direction adjustment of the found offset.
AdjustRtl(idx, ltr) == IF ~ltr THEN idx + 1 ELSE idx

\* self.glyphs[idx].safe_to_break.then(|| idx)
CheckSafe(glyphs, idx) ==
    IF idx >= Len(glyphs) THEN Panic
    ELSE IF glyphs[idx + 1].safe_to_break THEN Some(idx) ELSE None

\* find_safe_to_break, where hit is the outcome of the binary search.
FindSafeToBreak(st, text_index, towards, hit) ==
    LET ltr == st.dir = "LTR"
        len == Len(st.glyphs)
    IN  IF text_index = 0 THEN Some(IF ltr THEN 0 ELSE len)
        ELSE IF text_index = Len(st.text) THEN Some(IF ltr THEN len ELSE 0)
        ELSE IF hit = -1 THEN None
        ELSE CheckSafe(st.glyphs,
                       AdjustRtl(Outermost(st.glyphs, hit, text_index, towards), ltr))

\* The boundaries searched on the left and on the right side.
Boundaries(st, range) ==
    IF st.dir # "LTR"
    THEN [start |-> range.end, end |-> range.start]
    ELSE [start |-> range.start, end |-> range.end]

\* slice_safe_to_break: the glyph offsets left..right of the slice.
SliceSafeToBreak(st, range, hitl, hitr) ==
    LET b == Boundaries(st, range)
        left == FindSafeToBreak(st, b.start, "Left", hitl)
        right == FindSafeToBreak(st, b.end, "Right", hitr)
    IN  IF left.kind # "some" THEN [kind |-> left.kind, left |-> 0, right |-> 0]
        ELSE IF right.kind # "some" THEN [kind |-> right.kind, left |-> 0, right |-> 0]
        ELSE IF left.idx > right.idx \/ right.idx > Len(st.glyphs)
             THEN [kind |-> "panic", left |-> 0, right |-> 0]
             ELSE [kind |-> "some", left |-> left.idx, right |-> right.idx]

\* The reuse path as it would be if it kept the size and the baseline of the
\* text it slices.
ReuseStaleMetrics(st, range, sl, families) ==
    [text |-> Slice(st.text, range), dir |-> st.dir, size |-> st.size,
     baseline |-> st.baseline,
     glyphs |-> SubSeq(st.glyphs, sl.left + 1, sl.right), owned |-> FALSE]

\* The reuse path of reshape.
Reuse(st, range, sl, families) ==
    LET glyphs == SubSeq(st.glyphs, sl.left + 1, sl.right)
        m == Measure(glyphs, families)
    IN  [text |-> Slice(st.text, range), dir |-> st.dir, size |-> m.size,
         baseline |-> m.baseline, glyphs |-> glyphs, owned |-> FALSE]

NoShaped == [text |-> <<>>, dir |-> "none", size |-> [width |-> 0, height |-> 0],
             baseline |-> 0, glyphs |-> <<>>, owned |-> FALSE]

\* reshape as it would be if the reuse path called track on the glyphs it
\* returns.
ReshapeTrackingReused(st, range, families, tracking, hitl, hitr) ==
    LET sl == SliceSafeToBreak(st, range, hitl, hitr)
        reused == Reuse(st, range, sl, families)
    IN  CASE sl.kind = "some" ->
               [path |-> "reuse", range |-> range,
                out |-> [reused EXCEPT !.glyphs = Track(@, tracking)]]
          [] sl.kind = "none" ->
               [path |-> "shape", range |-> range,
                out |-> Shape(Slice(st.text, range), families, tracking, st.dir)]
          [] OTHER ->
               [path |-> "panic", range |-> range, out |-> NoShaped]

\* reshape: the path taken and the ShapedText returned.
Reshape(st, range, families, tracking, hitl, hitr) ==
    LET sl == SliceSafeToBreak(st, range, hitl, hitr)
    IN  CASE sl.kind = "some" ->
               [path |-> "reuse", range |-> range,
                out |-> Reuse(st, range, sl, families)]
          [] sl.kind = "none" ->
               [path |-> "shape", range |-> range,
                out |-> Shape(Slice(st.text, range), families, tracking, st.dir)]
          [] OTHER ->
               [path |-> "panic", range |-> range, out |-> NoShaped]

(***************************************************************************)
(* build and decorate                                                      *)
(* Lengths are in thousandths of a point.                                  *)
(***************************************************************************)

\* The line kinds of a decoration.
Lines == {"underline", "strikethrough", "overline"}

RECURSIVE GroupEnd(_, _)
\* The last glyph of the group of consecutive glyphs of one face that glyph
\* i is in.
GroupEnd(gs, i) ==
    IF i < Len(gs) /\ gs[i + 1].face_id = gs[i].face_id
    THEN GroupEnd(gs, i + 1)
    ELSE i

RECURSIVE Runs(_, _, _)
\* build: the position and the width of the Text of every group of glyphs of
\* one face, from glyph i on, the groups before it being offset wide.
Runs(gs, i, offset) ==
    IF i > Len(gs) THEN <<>>
    ELSE LET e == GroupEnd(gs, i)
             width == SumAdvance(SubSeq(gs, i, e))
         IN  <<[face_id |-> gs[i].face_id, pos_x |-> offset, width |-> width]>>
                 \o Runs(gs, e + 1, offset + width)

\* let evade = deco.evade && deco.line != STRIKETHROUGH
Evade(d) == d.evade /\ d.line # "strikethrough"

\* let gap_padding = 0.08 * text.size
GapPadding(size) == 80 * size

\* let min_width = 0.162 * text.size
MinWidth(size) == 162 * size

\* let mut start = pos.x - extent
LineStart(d) == d.pos_x - d.extent

\* let end = pos.x + (width + 2.0 * extent)
LineEnd(d) == d.pos_x + (d.width + 2 * d.extent)

\* push_segment as it would be if it pushed every segment, however narrow.
PushAnySegment(segs, from, to, evade, size) ==
    Append(segs, [origin_x |-> from, target_x |-> to - from])

\* push_segment: the line from `from` to `to` is pushed unless the decoration
\* evades and the line is narrower than the minimum width.
PushSegment(segs, from, to, evade, size) ==
    IF to - from >= MinWidth(size) \/ ~evade
    THEN Append(segs, [origin_x |-> from, target_x |-> to - from])
    ELSE segs

\* intersections.sort()
Sorted(intersections) == SortSeq(intersections, LAMBDA a, b : a < b)

RECURSIVE Gaps(_, _, _, _, _, _)
\* The loop over intersections.chunks_exact(2), from chunk k on, and the
\* segment after the last gap.
Gaps(segs, start, end, sorted, k, size) ==
    IF 2 * k > Len(sorted)
    THEN IF start < end THEN PushSegment(segs, start, end, TRUE, size) ELSE segs
    ELSE LET l == sorted[2 * k - 1] - GapPadding(size)
             r == sorted[2 * k] + GapPadding(size)
         IN  IF start >= end THEN segs
             ELSE IF start >= l THEN Gaps(segs, r, end, sorted, k + 1, size)
             ELSE Gaps(PushSegment(segs, start, l, TRUE, size), r, end, sorted,
                       k + 1, size)

RECURSIVE Cursors(_, _, _, _, _)
\* The values that `start`, the cursor of that loop, takes from chunk k on.
Cursors(start, end, sorted, k, size) ==
    IF 2 * k > Len(sorted) \/ start >= end
    THEN <<start>>
    ELSE <<start>> \o Cursors(sorted[2 * k] + GapPadding(size), end, sorted, k + 1,
                              size)

\* decorate: the line segments pushed to the frame for one run.
Decorate(d, size) ==
    IF ~Evade(d)
    THEN PushSegment(<<>>, LineStart(d), LineEnd(d), FALSE, size)
    ELSE Gaps(<<>>, LineStart(d), LineEnd(d), Sorted(d.intersections), 1, size)

(***************************************************************************)
(* families                                                                *)
(***************************************************************************)

\* FontFamily: a named family or one of the generic families.
Named(name) == [kind |-> "named", name |-> name]

Serif == [kind |-> "serif", name |-> ""]

SansSerif == [kind |-> "sans-serif", name |-> ""]

Monospace == [kind |-> "monospace", name |-> ""]

\* The closure of flat_map: the names a FontFamily stands for.
CoreNames(st, family) ==
    CASE family.kind = "named" -> <<family.name>>
      [] family.kind = "serif" -> st.serif
      [] family.kind = "sans-serif" -> st.sans_serif
      [] OTHER -> st.monospace

\* The head as it would be if the monospace list were there whether or not
\* the override is active.
FamiliesHeadAlways(st) == st.monospace

\* let head = if styles.get(MONOSPACED) { MONOSPACE } else { &[] }
FamiliesHead(st) == IF st.monospaced THEN st.monospace ELSE <<>>

\* let tail = if styles.get(FALLBACK) { the three names } else { &[] }
FamiliesTail(st) ==
    IF st.fallback
    THEN <<"ibm plex sans", "latin modern math", "twitter color emoji">>
    ELSE <<>>

\* families: the iterator head.chain(core).chain(tail) before its first item.
\* head, front and tail are what is left of the slices, outer what is left of
\* the FAMILY list that flat_map runs over.
FamiliesIter(st) ==
    [head |-> FamiliesHead(st), outer |-> st.family, front |-> <<>>,
     tail |-> FamiliesTail(st)]

\* An iterator with nothing left.
EmptyIter == [head |-> <<>>, outer |-> <<>>, front |-> <<>>, tail |-> <<>>]

RECURSIVE IterNext(_, _)
\* Iterator::next of the chain: the item, if any, and the iterator after it.
IterNext(st, it) ==
    IF it.head # <<>>
    THEN [some |-> TRUE, item |-> Head(it.head),
          it |-> [it EXCEPT !.head = Tail(@)]]
    ELSE IF it.front # <<>>
    THEN [some |-> TRUE, item |-> Head(it.front),
          it |-> [it EXCEPT !.front = Tail(@)]]
    ELSE IF it.outer # <<>>
    THEN IterNext(st, [it EXCEPT !.front = CoreNames(st, Head(it.outer)),
                                 !.outer = Tail(@)])
    ELSE IF it.tail # <<>>
    THEN [some |-> TRUE, item |-> Head(it.tail),
          it |-> [it EXCEPT !.tail = Tail(@)]]
    ELSE [some |-> FALSE, item |-> "", it |-> it]

RECURSIVE Drain(_, _)
\* The names an iterator yields until it is exhausted.
Drain(st, it) ==
    LET n == IterNext(st, it)
    IN  IF n.some THEN <<n.item>> \o Drain(st, n.it) ELSE <<>>

(***************************************************************************)
(* tags                                                                    *)
(***************************************************************************)

\* Tag::from_bytes
Tag(a, b, c, d) == <<a, b, c, d>>

\* b'0' + n
Digit(n) == <<"0", "1", "2", "3", "4", "5", "6", "7", "8", "9">>[n + 1]

\* Feature::new(tag, value, ..)
Feature(tag, value) == [tag |-> tag, value |-> value]

\* The tags that the flags of the styles stand for, in the order of the code.
ComputedTags(st) ==
    (IF ~st.kerning THEN <<Feature(Tag("k", "e", "r", "n"), 0)>> ELSE <<>>)
    \o (IF st.smallcaps THEN <<Feature(Tag("s", "m", "c", "p"), 1)>> ELSE <<>>)
    \o (IF st.alternates THEN <<Feature(Tag("s", "a", "l", "t"), 1)>> ELSE <<>>)
    \o (IF st.stylistic_set # 0
        THEN <<Feature(Tag("s", "s", Digit(st.stylistic_set \div 10),
                           Digit(st.stylistic_set % 10)), 1)>>
        ELSE <<>>)
    \o (IF ~st.ligatures
        THEN <<Feature(Tag("l", "i", "g", "a"), 0), Feature(Tag("c", "l", "i", "g"), 0)>>
        ELSE <<>>)
    \o (IF st.discretionary_ligatures
        THEN <<Feature(Tag("d", "l", "i", "g"), 1)>> ELSE <<>>)
    \o (IF st.historical_ligatures
        THEN <<Feature(Tag("h", "i", "l", "g"), 1)>> ELSE <<>>)
    \o (CASE st.number_type = "lining" -> <<Feature(Tag("l", "n", "u", "m"), 1)>>
          [] st.number_type = "old-style" -> <<Feature(Tag("o", "n", "u", "m"), 1)>>
          [] OTHER -> <<>>)
    \o (CASE st.number_width = "proportional" -> <<Feature(Tag("p", "n", "u", "m"), 1)>>
          [] st.number_width = "tabular" -> <<Feature(Tag("t", "n", "u", "m"), 1)>>
          [] OTHER -> <<>>)
    \o (CASE st.number_position = "subscript" -> <<Feature(Tag("s", "u", "b", "s"), 1)>>
          [] st.number_position = "superscript" -> <<Feature(Tag("s", "u", "p", "s"), 1)>>
          [] OTHER -> <<>>)
    \o (IF st.slashed_zero THEN <<Feature(Tag("z", "e", "r", "o"), 1)>> ELSE <<>>)
    \o (IF st.fractions THEN <<Feature(Tag("f", "r", "a", "c"), 1)>> ELSE <<>>)

\* tags: the computed tags, then the raw features of the styles.
Tags(st) == ComputedTags(st) \o st.features

\* The defaults of the style properties.
DefaultStyles ==
    [family |-> <<SansSerif>>,
     serif |-> <<"ibm plex serif">>,
     sans_serif |-> <<"ibm plex sans">>,
     monospace |-> <<"ibm plex mono">>,
     fallback |-> TRUE,
     monospaced |-> FALSE,
     kerning |-> TRUE,
     smallcaps |-> FALSE,
     alternates |-> FALSE,
     stylistic_set |-> 0,
     ligatures |-> TRUE,
     discretionary_ligatures |-> FALSE,
     historical_ligatures |-> FALSE,
     number_type |-> "auto",
     number_width |-> "auto",
     number_position |-> "normal",
     slashed_zero |-> FALSE,
     fractions |-> FALSE,
     features |-> <<>>]

(***************************************************************************)
(* The inputs and the state                                                *)
(***************************************************************************)

RECURSIVE SeqsUpTo(_, _)
\* The sequences over S of length at most n.
SeqsUpTo(S, n) ==
    IF n = 0 THEN {<<>>}
    ELSE LET shorter == SeqsUpTo(S, n - 1)
         IN  shorter \cup {Append(q, x) : q \in shorter, x \in S}

Texts == SeqsUpTo(Chars, MaxLen)

FamilySeqs == SeqsUpTo(FamilyNames, MaxFamilies)

Dirs == {"LTR", "RTL"}

\* The TRACKING values checked: none, and 0.03 em.
Trackings == {0, 30}

Ranges(len) == {[start |-> s, end |-> e] : s \in 0..len, e \in 0..len} \cap
               {r \in [start : 0..len, end : 0..len] : r.start <= r.end}

NoRes == [path |-> "none", range |-> [start |-> 0, end |-> 0], out |-> NoShaped]

NoDeco == [line |-> "none", evade |-> FALSE, extent |-> 0, pos_x |-> 0,
           width |-> 0, intersections |-> <<>>]

NoFrame == [at |-> "entry", base |-> 0, text |-> <<>>, families |-> <<>>,
            first_face |-> NoFace, face_id |-> NoFace, fallback |-> FALSE,
            infos |-> <<>>, i |-> 0]

VARIABLES
    text,       \* the text to shape
    dir,        \* its direction
    tracking,   \* the TRACKING style value
    fams,       \* the family sequence of the styles
    pc,         \* what has been called so far
    stack,      \* the active calls of shape_segment, innermost last
    glyphs,     \* the glyph vector shape_segment appends to
    shaped,     \* the ShapedText returned by shape
    res,        \* the outcome of reshape
    deco,       \* the decoration and the run decorate was called with
    frame,      \* the line segments decorate pushed
    styles,     \* the style properties the resolvers read
    fiter,      \* the iterator of families, a clone of it, and their items
    feats       \* the features tags returned

vars == <<text, dir, tracking, fams, pc, stack, glyphs, shaped, res, deco, frame,
          styles, fiter, feats>>

\* No iterator yet.
NoIter == [it |-> EmptyIter, out |-> <<>>, cloned |-> FALSE, at |-> 0,
           clone |-> EmptyIter, cout |-> <<>>]

inputs == <<text, dir, tracking, fams>>

\* Any text, direction and family sequence, under the default TRACKING.
Init ==
    /\ text \in Texts
    /\ dir \in Dirs
    /\ tracking = 0
    /\ fams \in FamilySeqs
    /\ pc = "ready"
    /\ stack = <<>>
    /\ glyphs = <<>>
    /\ shaped = NoShaped
    /\ res = NoRes
    /\ deco = NoDeco
    /\ frame = <<>>
    /\ styles = DefaultStyles
    /\ fiter = NoIter
    /\ feats = <<>>

(***************************************************************************)
(* shape as a whole call                                                   *)
(***************************************************************************)

\* shape(fonts, text, styles, dir)
DoShape ==
    /\ pc = "ready"
    /\ shaped' = Shape(text, fams, tracking, dir)
    /\ pc' = "shaped"
    /\ UNCHANGED <<inputs, deco, frame, styles, fiter, feats, stack, glyphs, res>>

\* shaped.reshape(fonts, start .. end)
DoReshape ==
    /\ pc = "shaped"
    /\ \E range \in Ranges(Len(shaped.text)) :
         LET b == Boundaries(shaped, range)
         IN  \E hitl \in BinarySearch(shaped.glyphs, b.start),
                hitr \in BinarySearch(shaped.glyphs, b.end) :
               res' = Reshape(shaped, range, fams, tracking, hitl, hitr)
    /\ pc' = "reshaped"
    /\ UNCHANGED <<inputs, deco, frame, styles, fiter, feats, stack, glyphs, shaped>>

Next == DoShape

Spec == Init /\ [][Next]_vars

(***************************************************************************)
(* shape and reshape                                                       *)
(***************************************************************************)

\* The families of the styles in the runs that reshape.
ReshapeFamilies == {"f1", "f2", "x"}

InitReshape ==
    /\ Init
    /\ fams \in SeqsUpTo(ReshapeFamilies, MaxFamilies)

NextReshape == DoShape \/ DoReshape

SpecReshape == InitReshape /\ [][NextReshape]_vars

(***************************************************************************)
(* shape and a sequence of reshape calls, with and without tracking        *)
(***************************************************************************)

\* The family sequence of the styles in these runs.
TrackFamilies == <<"f1", "f2">>

InitTrack ==
    /\ text \in Texts
    /\ dir \in Dirs
    /\ tracking \in Trackings
    /\ fams = TrackFamilies
    /\ pc = "ready"
    /\ stack = <<>>
    /\ glyphs = <<>>
    /\ shaped = NoShaped
    /\ res = NoRes
    /\ deco = NoDeco
    /\ frame = <<>>
    /\ styles = DefaultStyles
    /\ fiter = NoIter
    /\ feats = <<>>

\* The caller goes on with the ShapedText that reshape returned, and may
\* reshape that one next.
Continue ==
    /\ pc = "reshaped"
    /\ res.path # "panic"
    /\ shaped' = res.out
    /\ res' = NoRes
    /\ pc' = "shaped"
    /\ UNCHANGED <<inputs, deco, frame, styles, fiter, feats, stack, glyphs>>

NextTrack == DoShape \/ DoReshape \/ Continue

SpecTrack == InitTrack /\ [][NextTrack]_vars

(***************************************************************************)
(* shape with shape_segment taken step by step                             *)
(***************************************************************************)

Top == stack[Len(stack)]

Pop == SubSeq(stack, 1, Len(stack) - 1)

\* A call of shape_segment that has not run yet.
EntryFrame(base, t, families, first_face) ==
    [NoFrame EXCEPT !.base = base, !.text = t, !.families = families,
                    !.first_face = first_face]

\* The frame as it would be if the first face selected accepted its glyphs 0
\* and only the faces selected after it were taken as fallback.
LoopFrameFirstAccepts(f, sel) ==
    [at |-> "loop", base |-> f.base, text |-> f.text, families |-> sel.families,
     first_face |-> GetOrInsert(f.first_face, sel.face_id),
     face_id |-> sel.face_id, fallback |-> sel.fallback /\ f.first_face # NoFace,
     infos |-> RbShape(sel.face_id, f.text, dir), i |-> 1]

\* The frame of a call once the face is selected and the text is shaped.
LoopFrame(f, sel) ==
    [at |-> "loop", base |-> f.base, text |-> f.text, families |-> sel.families,
     first_face |-> GetOrInsert(f.first_face, sel.face_id),
     face_id |-> sel.face_id, fallback |-> sel.fallback,
     infos |-> RbShape(sel.face_id, f.text, dir), i |-> 1]

PcAfterReturn(st) == IF st = <<>> THEN "collected" ELSE "segment"

\* shape: the call of shape_segment for a non-empty text.
SegBegin ==
    /\ pc = "ready"
    /\ text # <<>>
    /\ stack' = <<EntryFrame(0, text, fams, NoFace)>>
    /\ pc' = "segment"
    /\ UNCHANGED <<inputs, deco, frame, styles, fiter, feats, glyphs, shaped, res>>

\* shape: no call of shape_segment for the empty text.
SegSkip ==
    /\ pc = "ready"
    /\ text = <<>>
    /\ pc' = "collected"
    /\ UNCHANGED <<inputs, deco, frame, styles, fiter, feats, stack, glyphs, shaped, res>>

\* shape_segment up to its loop: the newline check, the family selection and
\* the shaping; it returns at once for newlines and without any face.
SegEnter ==
    /\ pc = "segment"
    /\ Top.at = "entry"
    /\ LET sel == SelectFamily(Top.families, Top.first_face)
       IN  IF AllNewlines(Top.text) \/ ~sel.ok
           THEN /\ stack' = Pop
                /\ pc' = PcAfterReturn(Pop)
           ELSE /\ stack' = [stack EXCEPT ![Len(stack)] = LoopFrame(Top, sel)]
                /\ pc' = pc
    /\ UNCHANGED <<inputs, deco, frame, styles, fiter, feats, glyphs, shaped, res>>

\* One turn of the loop that pushes a glyph.
SegPush ==
    /\ pc = "segment"
    /\ Top.at = "loop"
    /\ Top.i <= Len(Top.infos)
    /\ Accepted(Top.infos[Top.i], Top.fallback)
    /\ glyphs' = Append(glyphs, MakeGlyph(Top.face_id, Top.infos[Top.i], Top.base))
    /\ stack' = [stack EXCEPT ![Len(stack)].i = @ + 1]
    /\ UNCHANGED <<inputs, deco, frame, styles, fiter, feats, pc, shaped, res>>

\* One turn of the loop that finds a tofu sequence and calls shape_segment
\* for its text range; the loop goes on behind the sequence afterwards.
SegRecurse ==
    /\ pc = "segment"
    /\ Top.at = "loop"
    /\ Top.i <= Len(Top.infos)
    /\ ~Accepted(Top.infos[Top.i], Top.fallback)
    /\ LET e == RunEnd(Top.infos, Top.i)
           r == TofuRange(Top.infos, Top.i, e, dir, Len(Top.text))
       IN  stack' = Append([stack EXCEPT ![Len(stack)].i = e + 1],
                           EntryFrame(Top.base + r.start, Slice(Top.text, r),
                                      Top.families, Top.first_face))
    /\ UNCHANGED <<inputs, deco, frame, styles, fiter, feats, pc, glyphs, shaped, res>>

\* The loop is over: shape_segment returns.
SegReturn ==
    /\ pc = "segment"
    /\ Top.at = "loop"
    /\ Top.i > Len(Top.infos)
    /\ stack' = Pop
    /\ pc' = PcAfterReturn(Pop)
    /\ UNCHANGED <<inputs, deco, frame, styles, fiter, feats, glyphs, shaped, res>>

\* shape after shape_segment: track, measure and the ShapedText.
SegFinish ==
    /\ pc = "collected"
    /\ LET tracked == Track(glyphs, tracking)
           m == Measure(tracked, fams)
       IN  shaped' = [text |-> text, dir |-> dir, size |-> m.size,
                      baseline |-> m.baseline, glyphs |-> tracked, owned |-> TRUE]
    /\ pc' = "shaped"
    /\ UNCHANGED <<inputs, deco, frame, styles, fiter, feats, stack, glyphs, res>>

NextSeg ==
    \/ SegBegin
    \/ SegSkip
    \/ SegEnter
    \/ SegPush
    \/ SegRecurse
    \/ SegReturn
    \/ SegFinish

\* shape runs to completion: nothing suspends it.
SpecSeg == Init /\ [][NextSeg]_vars /\ WF_vars(NextSeg)

\* The same steps for the family sequences over two families whose faces
\* each lack characters the other has.
TermFamilies == {"f1", "f2"}

InitTerm ==
    /\ Init
    /\ fams \in SeqsUpTo(TermFamilies, MaxFamilies)

SpecTerm == InitTerm /\ [][NextSeg]_vars /\ WF_vars(NextSeg)

(***************************************************************************)
(* shape, then decorate on a run of the frame build makes                  *)
(***************************************************************************)

MaxIntersections == 4

\* The texts that are decorated: letters the faces have.
DecoTexts == SeqsUpTo({"a", "b"}, MaxLen)

\* The resolved extents of a decoration.
Extents == {-1000, 0, 1000}

\* Where the outlines of the glyphs of a run can cross the line, from the
\* left bound of the run.
Crossings == {100, 2000, 2400, 6000, 6400}

InitDeco ==
    /\ text \in DecoTexts
    /\ dir = "LTR"
    /\ tracking = 0
    /\ fams = TrackFamilies
    /\ pc = "ready"
    /\ stack = <<>>
    /\ glyphs = <<>>
    /\ shaped = NoShaped
    /\ res = NoRes
    /\ deco = NoDeco
    /\ frame = <<>>
    /\ styles = DefaultStyles
    /\ fiter = NoIter
    /\ feats = <<>>

\* self.decorate(&mut frame, &deco, fonts, &text, pos, width), for one of the
\* runs of build.  The intersections are those of the glyph outlines with the
\* line, in glyph order; they are computed for an evading decoration only.
DoDecorate ==
    /\ pc = "shaped"
    /\ \E run \in {Runs(shaped.glyphs, 1, 0)[k] :
                     k \in 1..Len(Runs(shaped.glyphs, 1, 0))},
          line \in Lines, evade \in BOOLEAN, extent \in Extents :
         LET within == {run.pos_x + c : c \in {c \in Crossings : c <= run.width}}
         IN  \E ints \in IF evade /\ line # "strikethrough"
                         THEN SeqsUpTo(within, MaxIntersections)
                         ELSE {<<>>} :
               /\ deco' = [line |-> line, evade |-> evade, extent |-> extent,
                           pos_x |-> run.pos_x, width |-> run.width,
                           intersections |-> ints]
               /\ frame' = Decorate(deco', FontSize)
    /\ pc' = "decorated"
    /\ UNCHANGED <<inputs, stack, glyphs, shaped, res, styles, fiter, feats>>

NextDeco == DoShape \/ DoDecorate

SpecDeco == InitDeco /\ [][NextDeco]_vars

(***************************************************************************)
(* families: the iterator, a clone of it, and their items                  *)
(***************************************************************************)

\* The entries of a FAMILY list.
FamilyEntries == {Named("f1"), Named("ibm plex sans"), Serif, SansSerif, Monospace}

\* The MONOSPACE lists of the styles.
MonospaceLists == {<<"ibm plex mono">>, <<"m1", "f1">>, <<>>}

InitFamilies ==
    /\ text = <<>>
    /\ dir = "LTR"
    /\ tracking = 0
    /\ fams = <<>>
    /\ pc = "ready"
    /\ stack = <<>>
    /\ glyphs = <<>>
    /\ shaped = NoShaped
    /\ res = NoRes
    /\ deco = NoDeco
    /\ frame = <<>>
    /\ \E family \in SeqsUpTo(FamilyEntries, MaxFamilies),
          monospace \in MonospaceLists, monospaced \in BOOLEAN, fallback \in BOOLEAN :
         styles = [DefaultStyles EXCEPT !.family = family, !.monospace = monospace,
                                        !.monospaced = monospaced,
                                        !.fallback = fallback]
    /\ fiter = NoIter
    /\ feats = <<>>

\* families(styles)
DoFamilies ==
    /\ pc = "ready"
    /\ fiter' = [NoIter EXCEPT !.it = FamiliesIter(styles)]
    /\ pc' = "families"
    /\ UNCHANGED <<inputs, stack, glyphs, shaped, res, deco, frame, styles, feats>>

\* families.next() on the iterator, yielding a name.
FamNext ==
    /\ pc = "families"
    /\ LET n == IterNext(styles, fiter.it)
       IN  /\ n.some
           /\ fiter' = [fiter EXCEPT !.it = n.it, !.out = Append(@, n.item)]
    /\ UNCHANGED <<inputs, pc, stack, glyphs, shaped, res, deco, frame, styles, feats>>

\* families.clone(), as in the recursive call of shape_segment.
FamClone ==
    /\ pc = "families"
    /\ ~fiter.cloned
    /\ fiter' = [fiter EXCEPT !.cloned = TRUE, !.at = Len(fiter.out),
                              !.clone = fiter.it]
    /\ UNCHANGED <<inputs, pc, stack, glyphs, shaped, res, deco, frame, styles, feats>>

\* families.next() on the clone, yielding a name.
FamCloneNext ==
    /\ pc = "families"
    /\ fiter.cloned
    /\ LET n == IterNext(styles, fiter.clone)
       IN  /\ n.some
           /\ fiter' = [fiter EXCEPT !.clone = n.it, !.cout = Append(@, n.item)]
    /\ UNCHANGED <<inputs, pc, stack, glyphs, shaped, res, deco, frame, styles, feats>>

NextFamilies == DoFamilies \/ FamNext \/ FamClone \/ FamCloneNext

SpecFamilies == InitFamilies /\ [][NextFamilies]_vars

(***************************************************************************)
(* tags                                                                    *)
(***************************************************************************)

\* The STYLISTIC_SET values of the styles: none, ss01, ss12.
StylisticSets == {0, 1, 12}

\* The raw FEATURES lists of the styles.
RawFeatures ==
    {<<>>,
     <<Feature(Tag("h", "l", "i", "g"), 1)>>,
     <<Feature(Tag("d", "l", "i", "g"), 0), Feature(Tag("d", "l", "i", "g"), 0)>>}

InitTags ==
    /\ text = <<>>
    /\ dir = "LTR"
    /\ tracking = 0
    /\ fams = <<>>
    /\ pc = "ready"
    /\ stack = <<>>
    /\ glyphs = <<>>
    /\ shaped = NoShaped
    /\ res = NoRes
    /\ deco = NoDeco
    /\ frame = <<>>
    /\ \E b \in [{"kerning", "smallcaps", "alternates", "ligatures",
                  "discretionary_ligatures", "historical_ligatures",
                  "slashed_zero", "fractions"} -> BOOLEAN],
          set \in StylisticSets,
          nt \in {"auto", "lining", "old-style"},
          nw \in {"auto", "proportional", "tabular"},
          np \in {"normal", "subscript", "superscript"},
          raw \in RawFeatures :
         styles = [DefaultStyles EXCEPT
                     !.kerning = b["kerning"], !.smallcaps = b["smallcaps"],
                     !.alternates = b["alternates"], !.ligatures = b["ligatures"],
                     !.discretionary_ligatures = b["discretionary_ligatures"],
                     !.historical_ligatures = b["historical_ligatures"],
                     !.slashed_zero = b["slashed_zero"],
                     !.fractions = b["fractions"],
                     !.stylistic_set = set, !.number_type = nt,
                     !.number_width = nw, !.number_position = np,
                     !.features = raw]
    /\ fiter = NoIter
    /\ feats = <<>>

\* tags(styles)
DoTags ==
    /\ pc = "ready"
    /\ feats' = Tags(styles)
    /\ pc' = "tags"
    /\ UNCHANGED <<inputs, stack, glyphs, shaped, res, deco, frame, styles, fiter>>

NextTags == DoTags

SpecTags == InitTags /\ [][NextTags]_vars

(***************************************************************************)
(* Properties of reshape                                                   *)
(***************************************************************************)

\* The glyphs with their text_index shifted by a text offset.
Shifted(gs, by) == [i \in 1..Len(gs) |-> [gs[i] EXCEPT !.text_index = @ + by]]

\* What shape returns for the sub-range of the text that was reshaped.
FreshShape == Shape(Slice(shaped.text, res.range), fams, tracking, dir)

\* C1: whenever reshape takes the reuse path for a sub-range R, the glyphs
\* it returns are the glyphs of shape(T[R]), glyph for glyph, with the fresh
\* text_index shifted by R.start.
C1_ReshapeEquivalence ==
    (pc = "reshaped" /\ res.path = "reuse")
        => res.out.glyphs = Shifted(FreshShape.glyphs, res.range.start)

\* A boundary is safe: it is 0, the text length, or the text_index of a
\* glyph whose own safe_to_break flag is set.
SafeBoundary(b) ==
    \/ b = 0
    \/ b = Len(shaped.text)
    \/ \E i \in 1..Len(shaped.glyphs) :
         /\ shaped.glyphs[i].text_index = b
         /\ shaped.glyphs[i].safe_to_break

\* C2: reshape reuses a slice only if both boundaries of the range are safe,
\* and with an unsafe boundary it returns a full shape of the sub-range.
C2_NoUnsafeReuse ==
    pc = "reshaped" =>
        LET safe == SafeBoundary(res.range.start) /\ SafeBoundary(res.range.end)
        IN  /\ res.path = "reuse" => safe
            /\ ~safe => (res.path = "shape" /\ res.out = FreshShape)

(***************************************************************************)
(* Properties of shape_segment                                             *)
(***************************************************************************)

\* C3: shape_segment terminates for every text, direction and family
\* sequence, and never are more calls of it active than the sequence has
\* families, plus one for the final pass with the first face.
C3_FallbackTermination ==
    /\ [](Len(stack) <= Len(fams) + 1)
    /\ <>(pc = "collected")

\* The final pass runs at the full depth, below a call for every family.
C3_Witness ==
    /\ Len(fams) >= 2
    /\ Len(stack) = Len(fams) + 1
    /\ Top.at = "loop"
    /\ ~Top.fallback

\* The clusters of a text, and the characters of a cluster.
Clusters(t) == {ClusterOf(t, j) : j \in 1..Len(t)}

CharsOf(t, c) == {j \in 1..Len(t) : ClusterOf(t, j) = c}

\* The glyphs of a run that belong to a cluster, in the order of the run.
GlyphsAt(gs, c) == SelectSeq(gs, LAMBDA g : g.text_index = c)

\* Some family of the sequence has a face.
SomeFace(families) == \E k \in 1..Len(families) : Select(families[k]) # NoFace

\* The glyphs of cluster c are the glyphs of one pass of one face over it:
\* one glyph per character, in visual order, all of that face.
CoveredOnce(gs, t, d, c) ==
    LET at == GlyphsAt(gs, c)
        n == Cardinality(CharsOf(t, c))
    IN  /\ Len(at) = n
        /\ \E f \in {Select(x) : x \in FamilyNames} \ {NoFace} :
             \A i \in 1..n :
               /\ at[i].face_id = f
               /\ at[i].glyph_id = Cmap(f, t[c + (IF d = "LTR" THEN i ELSE n + 1 - i)])

\* C4: when shape_segment has returned, every cluster of the text is
\* represented by the glyphs of exactly one shaping pass, none dropped and
\* none shaped twice.  (Stated for the clusters without a newline, which no
\* font has, and for a store that has a face to shape with.)
C4_FallbackCoverage ==
    (pc = "shaped" /\ SomeFace(fams)) =>
        \A c \in Clusters(text) :
            (\A j \in CharsOf(text, c) : text[j] # "n")
                => CoveredOnce(shaped.glyphs, text, dir, c)

\* A family maps a cluster: the store has its face and the face has a glyph
\* for every character of the cluster.
Maps(family, t, c) ==
    /\ Select(family) # NoFace
    /\ \A j \in CharsOf(t, c) : Cmap(Select(family), t[j]) # 0

\* The families of the sequence that map a cluster.
Mapping(families, t, c) == {k \in 1..Len(families) : Maps(families[k], t, c)}

\* The face of the first family the store has a face for.
Anchor(families) == CHOOSE f \in FirstAvailable(families) : TRUE

\* The glyphs of cluster c hold the glyphs of the face of family k for it.
HoldsGlyphsOf(gs, t, c, family) ==
    \A j \in CharsOf(t, c) :
        \E i \in 1..Len(gs) :
            /\ gs[i].text_index = c
            /\ gs[i].face_id = Select(family)
            /\ gs[i].glyph_id = Cmap(Select(family), t[j])

\* C5: a glyph 0 is in the result of shape only for a cluster that no family
\* of the sequence maps, and it is of the final pass with the first face; a
\* cluster that some family maps has no glyph 0 and holds the glyphs of a
\* family that maps it; a single character that the first family lacks and
\* a later one has gives exactly one glyph, of the later family's face.
C5_TofuContainment ==
    pc = "shaped" =>
        /\ \A i \in 1..Len(shaped.glyphs) :
             LET g == shaped.glyphs[i]
             IN  g.glyph_id = 0 =>
                    /\ Mapping(fams, text, g.text_index) = {}
                    /\ g.face_id = Anchor(fams)
        /\ \A c \in Clusters(text) :
             Mapping(fams, text, c) # {} =>
                /\ \A i \in 1..Len(shaped.glyphs) :
                     shaped.glyphs[i].text_index = c => shaped.glyphs[i].glyph_id # 0
                /\ \E k \in Mapping(fams, text, c) :
                     HoldsGlyphsOf(shaped.glyphs, text, c, fams[k])
        /\ (Len(text) = 1 /\ Mapping(fams, text, 0) # {}) =>
                /\ Len(shaped.glyphs) = 1
                /\ shaped.glyphs[1].face_id
                     = Select(fams[CHOOSE k \in Mapping(fams, text, 0) :
                                     \A j \in Mapping(fams, text, 0) : k <= j])

(***************************************************************************)
(* Properties of track                                                     *)
(***************************************************************************)

\* The glyphs of the shaped text before track.
Untracked == SegmentGlyphs(shaped.text, fams, dir)

\* Glyph i is the last glyph of a cluster of several glyphs.
LastOfMulti(gs, i) ==
    /\ i > 1
    /\ gs[i - 1].text_index = gs[i].text_index
    /\ (i = Len(gs) \/ gs[i].text_index # gs[i + 1].text_index)

\* Glyph i is followed by a glyph of another cluster.
BeforeOtherCluster(gs, i) ==
    i < Len(gs) /\ gs[i].text_index # gs[i + 1].text_index

\* The shaped text is the one shape returned, not a reshaped one.
FromShape == pc \in {"shaped", "reshaped"} /\ shaped.owned /\ shaped.text = text

\* C6 as stated: with non-zero tracking, track adds the tracking to the
\* advance of every glyph except the last glyph of each cluster of several
\* glyphs; with zero tracking it changes no advance.
C6_TrackAllButLastOfCluster ==
    FromShape =>
        /\ Len(shaped.glyphs) = Len(Untracked)
        /\ \A i \in 1..Len(shaped.glyphs) :
             shaped.glyphs[i].x_advance
               = Untracked[i].x_advance
                   + (IF LastOfMulti(Untracked, i) THEN 0 ELSE tracking)

\* C6 amended: track adds the tracking to the advance of exactly the glyphs
\* that are followed by a glyph with another text_index (the last glyph of
\* every cluster but the last cluster of the run) and changes nothing else;
\* with zero tracking it changes no advance.
C6_TrackRule ==
    FromShape =>
        /\ Len(shaped.glyphs) = Len(Untracked)
        /\ \A i \in 1..Len(shaped.glyphs) :
             shaped.glyphs[i]
               = [Untracked[i] EXCEPT !.x_advance =
                    @ + (IF BeforeOtherCluster(Untracked, i) THEN tracking ELSE 0)]

\* A run with a cluster of two glyphs before another cluster was tracked:
\* the first glyph of the cluster kept its advance and the last one grew.
C6_Witness ==
    /\ FromShape
    /\ tracking # 0
    /\ \E i \in 1..(Len(shaped.glyphs) - 2) :
         /\ Untracked[i].text_index = Untracked[i + 1].text_index
         /\ Untracked[i + 1].text_index # Untracked[i + 2].text_index
         /\ shaped.glyphs[i].x_advance = Untracked[i].x_advance
         /\ shaped.glyphs[i + 1].x_advance = Untracked[i + 1].x_advance + tracking

\* The advances the engine and the font give a glyph, without tracking:
\* the advance of the glyph, with or without the kerning of its face.
BaseAdvances(g) ==
    {ToEm(g.face_id, HAdvance(g.face_id, g.glyph_id)),
     ToEm(g.face_id, HAdvance(g.face_id, g.glyph_id) + KernValue(g.face_id))}

\* Every advance of the run holds the tracking once or not at all.
TrackedAtMostOnce(gs) ==
    \A i \in 1..Len(gs) :
        \E e \in BaseAdvances(gs[i]) : gs[i].x_advance \in {e, e + tracking}

\* A second track on the glyphs shape returned adds the tracking a second
\* time to each advance the first one changed.
TrackCompounds ==
    LET again == Track(shaped.glyphs, tracking)
    IN  \A i \in 1..Len(again) :
            again[i].x_advance
              = Untracked[i].x_advance
                  + (IF BeforeOtherCluster(Untracked, i) THEN 2 * tracking ELSE 0)

\* C7: track is not idempotent (a second track with the same non-zero value
\* adds the tracking a second time to each affected advance), and along any
\* sequence of shape and reshape calls the advance of every returned glyph
\* holds the tracking at most once.
C7_TrackingOnce ==
    /\ (FromShape /\ tracking # 0) => TrackCompounds
    /\ pc \in {"shaped", "reshaped"} => TrackedAtMostOnce(shaped.glyphs)
    /\ (pc = "reshaped" /\ res.path # "panic") => TrackedAtMostOnce(res.out.glyphs)

\* reshape reused glyphs of a reshaped text, one of which holds the tracking,
\* and a second track on the glyphs of shape would change an advance.
C7_Witness ==
    /\ pc = "reshaped"
    /\ tracking # 0
    /\ ~shaped.owned
    /\ res.path = "reuse"
    /\ \E i \in 1..Len(res.out.glyphs) :
         /\ BeforeOtherCluster(res.out.glyphs, i)
         /\ \E e \in BaseAdvances(res.out.glyphs[i]) :
              res.out.glyphs[i].x_advance = e + tracking
    /\ Track(res.out.glyphs, tracking) # res.out.glyphs

(***************************************************************************)
(* Properties of shape without a font                                      *)
(***************************************************************************)

\* The store has no face for any family of the sequence.
NoFamilyResolves == \A k \in 1..Len(fams) : Select(fams[k]) = NoFace

\* C10: when the store resolves no family of the sequence to a face, shape of
\* any text, in either direction, returns a ShapedText with no glyphs, width
\* 0, height 0 and baseline 0.
C10_NoFontDegradation ==
    (pc = "shaped" /\ NoFamilyResolves) =>
        /\ shaped.text = text
        /\ shaped.glyphs = <<>>
        /\ shaped.size = [width |-> 0, height |-> 0]
        /\ shaped.baseline = 0

\* shape returned for a text with a letter and a sequence of families the
\* store has no face for.
C10_Witness ==
    /\ pc = "shaped"
    /\ NoFamilyResolves
    /\ Len(fams) >= 1
    /\ \E j \in 1..Len(text) : text[j] # "n"
    /\ shaped.glyphs = <<>>

(***************************************************************************)
(* Properties of decorate                                                  *)
(***************************************************************************)

\* C8: for an evading decoration over a run whose sorted intersections form
\* N gaps, decorate pushes at most N + 1 segments, each of non-negative
\* length and none narrower than the minimum width 0.162 x font size.
C8_GapMonotonicity ==
    (pc = "decorated" /\ Evade(deco)) =>
        /\ Len(frame) <= (Len(deco.intersections) \div 2) + 1
        /\ \A k \in 1..Len(frame) :
             /\ frame[k].target_x >= 0
             /\ frame[k].target_x >= MinWidth(FontSize)

\* An evading line over a run with two separate gaps: the segment before the
\* first gap was too narrow and is not there, the segment between the gaps
\* and the one after the last gap are.
C8_Witness ==
    /\ pc = "decorated"
    /\ Evade(deco)
    /\ Len(deco.intersections) = 4
    /\ Sorted(deco.intersections) # deco.intersections
    /\ Sorted(deco.intersections)[1] < Sorted(deco.intersections)[2]
    /\ Sorted(deco.intersections)[2] + 2 * GapPadding(FontSize)
         < Sorted(deco.intersections)[3]
    /\ Len(frame) = 2
    /\ frame[1].origin_x > Sorted(deco.intersections)[2]
    /\ frame[2].origin_x + frame[2].target_x = LineEnd(deco)

\* C9 as stated: a decoration that is not evaded (evade off, or a
\* strikethrough) gets exactly one segment, from the left bound of the run
\* minus extent to its right bound plus extent, of length width + 2 x extent.
C9_NonEvadingExtent ==
    (pc = "decorated" /\ ~Evade(deco)) =>
        /\ Len(frame) = 1
        /\ frame[1].origin_x = deco.pos_x - deco.extent
        /\ frame[1].origin_x + frame[1].target_x
             = deco.pos_x + deco.width + deco.extent
        /\ frame[1].target_x = deco.width + 2 * deco.extent

(***************************************************************************)
(* Properties of families and tags                                         *)
(***************************************************************************)

RECURSIVE ExpandAll(_, _)
\* Every entry of a family list replaced by its name or by the list bound to
\* its generic, in order and with nothing removed.
ExpandAll(st, list) ==
    IF list = <<>> THEN <<>>
    ELSE (CASE Head(list).kind = "named" -> <<Head(list).name>>
            [] Head(list).kind = "serif" -> st.serif
            [] Head(list).kind = "sans-serif" -> st.sans_serif
            [] Head(list).kind = "monospace" -> st.monospace)
         \o ExpandAll(st, Tail(list))

\* The sequence of names the family resolver is to yield.
FamilyOrder(st) ==
    (IF st.monospaced THEN st.monospace ELSE <<>>)
    \o ExpandAll(st, st.family)
    \o (IF st.fallback
        THEN <<"ibm plex sans", "latin modern math", "twitter color emoji">>
        ELSE <<>>)

\* C11: families yields the monospace list iff the override is active, then
\* every entry of the family list as its name or its generic's list, then the
\* fixed tail iff fallback is enabled, with no duplicate removed; a clone taken
\* at any position yields the names the original yields from that position.
C11_FamilyOrder ==
    pc = "families" =>
        /\ fiter.out \o Drain(styles, fiter.it) = FamilyOrder(styles)
        /\ fiter.cloned =>
             fiter.cout \o Drain(styles, fiter.clone)
               = SubSeq(FamilyOrder(styles), fiter.at + 1, Len(FamilyOrder(styles)))

\* Both the iterator and a clone taken inside the family list are exhausted;
\* the override and fallback are on, and a name was yielded more than once.
C11_Witness ==
    /\ pc = "families"
    /\ styles.monospaced /\ styles.fallback /\ styles.monospace # <<>>
    /\ fiter.cloned
    /\ fiter.at > Len(styles.monospace)
    /\ fiter.at < Len(fiter.out) - 3
    /\ ~IterNext(styles, fiter.it).some
    /\ ~IterNext(styles, fiter.clone).some
    /\ fiter.cout # <<>>
    /\ \E i, j \in 1..Len(fiter.out) : i < j /\ fiter.out[i] = fiter.out[j]

\* The number of features of a list that have the tag and the value.
Count(list, tag, value) ==
    Cardinality({i \in 1..Len(list) : list[i] = Feature(tag, value)})

\* C12: tags emits 'hlig' = 1 when the historical-ligatures flag is on and
\* 'dlig' = 1 when the discretionary-ligatures flag is on, each whatever the
\* other flags are, and the raw feature list comes last, after all computed
\* tags, with nothing removed.
C12_LigatureTags ==
    pc = "tags" =>
        LET n == Len(feats) - Len(styles.features)
            computed == SubSeq(feats, 1, n)
        IN  /\ n >= 0
            /\ SubSeq(feats, n + 1, Len(feats)) = styles.features
            /\ Count(computed, Tag("h", "l", "i", "g"), 1)
                 = (IF styles.historical_ligatures THEN 1 ELSE 0)
            /\ Count(computed, Tag("d", "l", "i", "g"), 1)
                 = (IF styles.discretionary_ligatures THEN 1 ELSE 0)

(***************************************************************************)
(* Properties of the metrics                                               *)
(***************************************************************************)

\* The ShapedTexts that shape and reshape have returned in this state.
Returned ==
    (IF pc \in {"shaped", "reshaped"} THEN {shaped} ELSE {})
    \cup (IF pc = "reshaped" /\ res.path # "panic" THEN {res.out} ELSE {})

\* The greatest of a set of lengths, 0 for no length.
Greatest(values) ==
    IF values = {} THEN 0 ELSE CHOOSE v \in values : \A w \in values : v >= w

RECURSIVE AdvanceSum(_, _)
\* The sum of the resolved advances of the first n glyphs.
AdvanceSum(gs, n) ==
    IF n = 0 THEN 0 ELSE AdvanceSum(gs, n - 1) + gs[n].x_advance * FontSize

\* The faces of the glyphs a ShapedText holds.
FacesOf(st) == {st.glyphs[i].face_id : i \in 1..Len(st.glyphs)}

\* Size and baseline are those of the glyphs held and of the given faces.
MetricsFrom(st, faces) ==
    /\ st.size.width = AdvanceSum(st.glyphs, Len(st.glyphs))
    /\ st.baseline = Greatest({FontSize * TopMetric(f) : f \in faces})
    /\ st.size.height = st.baseline
                          + Greatest({-(FontSize * BottomMetric(f)) : f \in faces})

\* A text of two letters shaped into two glyphs without tracking has the
\* text_index values 0 and 1 and the width of both advances.
TwoLetters ==
    (/\ pc = "shaped"
     /\ tracking = 0
     /\ Len(text) = 2
     /\ \A j \in 1..2 : text[j] \in {"a", "b", "z"}
     /\ Len(shaped.glyphs) = 2) =>
        /\ {shaped.glyphs[1].text_index, shaped.glyphs[2].text_index} = {0, 1}
        /\ shaped.size.width
             = FontSize * (shaped.glyphs[1].x_advance + shaped.glyphs[2].x_advance)

SortedByDir(st) ==
    \A i, j \in 1..Len(st.glyphs) :
        i < j =>
            IF st.dir = "LTR"
            THEN st.glyphs[i].text_index <= st.glyphs[j].text_index
            ELSE st.glyphs[i].text_index >= st.glyphs[j].text_index

\* C14: the glyphs of every ShapedText returned by shape or reshape, after
\* any number of nested fallback recursions, are sorted by text_index
\* consistently with the direction.
C14_GlyphOrder == \A st \in Returned : SortedByDir(st)

\* A right-to-left text whose glyphs come from two faces and a tofu of the
\* last pass, with descending text_index, and a reshaped part of it.
C14_Witness ==
    /\ pc = "reshaped"
    /\ res.path # "panic"
    /\ shaped.dir = "RTL"
    /\ Len(shaped.glyphs) = MaxLen
    /\ Cardinality(FacesOf(shaped)) = 2
    /\ \E i \in 1..Len(shaped.glyphs) :
         /\ shaped.glyphs[i].glyph_id = 0
         /\ shaped.glyphs[i].text_index > 0
         /\ shaped.glyphs[i].text_index < Len(text) - 1
    /\ shaped.glyphs[1].text_index > shaped.glyphs[Len(shaped.glyphs)].text_index
    /\ Len(res.out.glyphs) >= 2

(***************************************************************************)
(* Properties of the reused slice                                          *)
(***************************************************************************)

\* The glyphs of a ShapedText whose text_index lies in a range.
GlyphsIn(st, range) ==
    SelectSeq(st.glyphs,
              LAMBDA g : range.start <= g.text_index /\ g.text_index < range.end)

\* C15 as stated: whenever reshape takes the reuse path for a range, the
\* slice it returns consists of exactly the glyphs of the text whose
\* text_index is in the range, in both directions and with clusters of
\* several glyphs at the boundaries.
C15_ReusedSlice ==
    (pc = "reshaped" /\ res.path = "reuse") =>
        res.out.glyphs = GlyphsIn(shaped, res.range)

(***************************************************************************)
(* Properties of the passes of shape_segment                               *)
(***************************************************************************)

\* The family sequence call k of the stack was entered with.
EntryFamilies(k) == IF k = 1 THEN fams ELSE stack[k - 1].families

\* The families of a sequence that the store has a face for.
Available(families) == {j \in 1..Len(families) : Select(families[j]) # NoFace}

\* Call k shapes with the face of the first-requested family.
FirstFamilyPass(k) ==
    /\ k = 1
    /\ stack[k].at = "loop"
    /\ fams # <<>>
    /\ stack[k].face_id = Select(fams[1])
    /\ stack[k].families = Tail(fams)

\* A face gave a glyph 0 for the text of call k.
HasTofu(k) == \E i \in 1..Len(stack[k].infos) : stack[k].infos[i].glyph_id = 0

\* C16 as stated: a glyph 0 is taken as unmapped only when its face was
\* chosen via fallback, that is not as the first-requested family; a glyph 0
\* of the face of the first-requested family is accepted as it is.
C16_FirstFamilyAcceptsTofu ==
    \A k \in 1..Len(stack) :
        (FirstFamilyPass(k) /\ HasTofu(k)) =>
            \A i \in 1..Len(stack[k].infos) :
                Accepted(stack[k].infos[i], stack[k].fallback)

\* C16 amended: a glyph 0 is taken as unmapped in every pass whose face was
\* selected from the family sequence, the first-requested family included; it
\* is accepted as it is only in the pass that finds the sequence exhausted
\* and shapes with the first face again.
C16_TofuAcceptance ==
    \A k \in 1..Len(stack) :
        stack[k].at = "loop" =>
            LET entry == EntryFamilies(k)
            IN  /\ stack[k].fallback <=> Available(entry) # {}
                /\ stack[k].fallback =>
                     \E j \in Available(entry) :
                        /\ \A h \in Available(entry) : j <= h
                        /\ stack[k].face_id = Select(entry[j])
                        /\ stack[k].families = SubSeq(entry, j + 1, Len(entry))
                /\ ~stack[k].fallback =>
                     /\ stack[k].face_id = stack[k].first_face
                     /\ k > 1
                /\ \A i \in 1..Len(stack[k].infos) :
                     Accepted(stack[k].infos[i], stack[k].fallback)
                       <=> (stack[k].infos[i].glyph_id # 0 \/ Available(entry) = {})

\* The face of the first-requested family gave a glyph 0, and its range is
\* being shaped with the face of the next family.
C16_Witness ==
    /\ Len(stack) = 2
    /\ FirstFamilyPass(1)
    /\ HasTofu(1)
    /\ stack[1].fallback
    /\ stack[2].at = "loop"
    /\ stack[2].fallback
    /\ stack[2].face_id # stack[1].face_id
    /\ ~HasTofu(2)

\* The face of the first family of the styles that the store has a face for.
AnchorFace ==
    Select(fams[CHOOSE j \in Available(fams) : \A h \in Available(fams) : j <= h])

\* Call k found its family sequence exhausted and shapes with the first face.
FinalPass(k) == stack[k].at = "loop" /\ Available(EntryFamilies(k)) = {}

RunStart(infos, e) ==
    CHOOSE k \in 1..e :
        /\ \A h \in k..e : infos[h].glyph_id = 0
        /\ k = 1 \/ infos[k - 1].glyph_id # 0

\* The range of the text of call k within the text of the call below it.
RangeOfCall(k) ==
    [start |-> stack[k].base - stack[k - 1].base,
     end |-> stack[k].base - stack[k - 1].base + Len(stack[k].text)]

\* The range of call k is the one stated for the tofu sequence it is for.
RangeAsStated(k) ==
    LET p == stack[k - 1]
        i == p.i - 1
        f == RunStart(p.infos, i)
        r == RangeOfCall(k)
    IN  /\ 0 <= r.start /\ r.start <= r.end /\ r.end <= Len(p.text)
        /\ stack[k].text = SubSeq(p.text, r.start + 1, r.end)
        /\ dir = "LTR" =>
             /\ r.start = p.infos[f].cluster
             /\ r.end = (IF i + 1 <= Len(p.infos) THEN p.infos[i + 1].cluster
                         ELSE Len(p.text))
        /\ dir = "RTL" =>
             /\ r.start = p.infos[i].cluster
             /\ r.end = (IF f - 1 >= 1 THEN p.infos[f - 1].cluster
                         ELSE Len(p.text))

\* The range of call k holds the characters of the clusters of the tofu
\* sequence, all of them and no other.
RangeIsClusters(k) ==
    LET p == stack[k - 1]
        i == p.i - 1
        f == RunStart(p.infos, i)
        r == RangeOfCall(k)
    IN  (r.start + 1)..r.end
          = UNION {CharsOf(p.text, p.infos[h].cluster) : h \in f..i}

\* The glyph pushed last by the call on top has text_index = base + cluster.
LastPushIndexed ==
    (/\ stack # <<>>
     /\ Top.at = "loop"
     /\ Top.i > 1
     /\ Accepted(Top.infos[Top.i - 1], Top.fallback)) =>
        /\ glyphs # <<>>
        /\ glyphs[Len(glyphs)].text_index = Top.base + Top.infos[Top.i - 1].cluster

\* C18 as stated: the range start..end of every recursive call is within the
\* text, is the one computed from the clusters next to the tofu sequence as
\* the direction demands, is exactly the bytes of the clusters of the
\* sequence, and the glyphs of the call get text_index = base + start + their
\* cluster.
C18_TofuSubRange ==
    /\ \A k \in 2..Len(stack) : RangeAsStated(k) /\ RangeIsClusters(k)
    /\ LastPushIndexed

(***************************************************************************)
(* Properties of reshape as a total function                               *)
(***************************************************************************)

\* C19: for every ShapedText that shape returned, in either direction, and
\* every range 0 <= start <= end <= text length, reshape returns a ShapedText:
\* the index that find_safe_to_break reads after the right-to-left adjustment
\* is a glyph index, and the left bound of the slice is not beyond the right.
C19_ReshapeTotal ==
    (pc = "reshaped" /\ shaped.owned) => res.path # "panic"

(***************************************************************************)
(* Properties of the evaded line                                           *)
(***************************************************************************)

\* The padded gaps of the decoration: one for every two sorted intersections.
PaddedGaps ==
    LET sorted == Sorted(deco.intersections)
    IN  {[l |-> sorted[2 * k - 1] - GapPadding(FontSize),
          r |-> sorted[2 * k] + GapPadding(FontSize)] :
            k \in 1..(Len(sorted) \div 2)}

\* The right end of a segment.
SegEnd(seg) == seg.origin_x + seg.target_x

\* C20: in evade mode, for any intersections and any extent, the cursor of
\* decorate never moves left, the segments are pairwise disjoint and in
\* ascending order, each lies within the line from pos.x - extent to the line
\* end, and none overlaps a padded gap.
C20_EvadedSegments ==
    (pc = "decorated" /\ Evade(deco)) =>
        LET cursors == Cursors(LineStart(deco), LineEnd(deco),
                               Sorted(deco.intersections), 1, FontSize)
        IN  /\ \A k \in 1..(Len(cursors) - 1) : cursors[k] <= cursors[k + 1]
            /\ \A k \in 1..(Len(frame) - 1) : SegEnd(frame[k]) <= frame[k + 1].origin_x
            /\ \A k \in 1..Len(frame) :
                 /\ LineStart(deco) <= frame[k].origin_x
                 /\ SegEnd(frame[k]) <= LineEnd(deco)
            /\ \A k \in 1..Len(frame) :
                 \A gap \in PaddedGaps :
                     SegEnd(frame[k]) <= gap.l \/ gap.r <= frame[k].origin_x

====
